---- MODULE Spec2Model ----
(***************************************************************************)
(* Direct messaging of the Hucksta campus marketplace: the conversation    *)
(* resolver of ItemDetail (handleMessageSeller), the App navigation that    *)
(* receives its handle, and the Messages view (conversation list, message  *)
(* load, push subscription, send), over the hosted store's conversations   *)
(* and messages tables.                                                    *)
(*                                                                         *)
(* Every client is one browser running the app with one signed-in user;    *)
(* a client is named by its user.  An await of the source is two steps:    *)
(* the store executes the request, then the continuation runs with the     *)
(* response.                                                               *)
(***************************************************************************)
EXTENDS Integers, Sequences, FiniteSets, TLC

\* ------------------------------------------------------------------ bounds
MaxRaceCalls == 2    \* calls of handleMessageSeller in SpecRace
MaxChatCalls == 2    \* calls of handleMessageSeller in SpecScenario
MaxChatSends == 2    \* messages sent in SpecScenario
MaxSends    == 1     \* messages sent in SpecStream
MaxOpens    == 2     \* conversations opened in SpecStream
MaxResolves == 4     \* calls of handleMessageSeller in SpecResolve
MaxComposeSends == 1 \* messages sent in SpecCompose
MaxComposeOpens == 1 \* conversations opened by B in SpecCompose
MaxSessionSends == 1 \* messages sent in SpecSession
MaxSessionOpens == 1 \* conversations opened in SpecSession
MaxDetailCalls == 2  \* calls of handleMessageSeller in SpecDetail
MaxDeletes == 1      \* dialogs of handleDelete per client in SpecDelete
MaxDeleteSends == 1  \* messages sent in SpecDelete
MaxOrderOpens == 2   \* conversations opened by B in SpecOrder
MaxOrderSends == 1   \* messages sent by each of A and B in SpecOrder
MaxViewOpens == 2    \* conversations opened by B in SpecView
MaxViewSends == 1    \* messages sent by A in SpecView
MaxNotifySends == 1  \* messages sent by A in SpecNotify

\* ------------------------------------------------------------------ inputs
Users == {"A", "B", "C"}

\* The listings table: A sells one item, B sells two, C sells nothing.
Listings ==
  { [id |-> "L1", seller_id |-> "A"],
    [id |-> "L2", seller_id |-> "B"],
    [id |-> "L3", seller_id |-> "B"] }

NoItem == [id |-> "none", seller_id |-> "none"]
NoFetch == [pc |-> "none", uid |-> "nobody", data |-> <<>>]
NoConv == 0            \* null conversation id; ids are 1, 2, ...
NoUser == "nobody"     \* session = null
NoDelete == [pc |-> "none", item |-> NoItem]

\* enum Tab; SELL and PROFILE behave as HOME does for messaging
TabHOME     == "home"
TabMESSAGES == "messages"
Tabs == {TabHOME, TabMESSAGES}

VARIABLES
  \* the store
  listings,        \* table public.listings: a set of rows
  conversations,   \* table public.conversations: a set of rows
  messages,        \* table public.messages: a set of rows
  now,             \* the store's clock: created_at of the next insert
  \* the realtime service
  channels,        \* push channels of all clients: joining or joined, with the
                   \* events on their way to the client
  \* App, per client
  session,         \* the signed-in user, or NoUser (App then renders Login)
  activeTab, viewingItem, openConversationId,
  unreadCount,     \* the dot on the Messages tab
  notes,           \* runs of the global-notifications handler, all clients
  \* the profiles table and EditProfile, per client
  profiles,        \* table public.profiles: the username of each user's row
  username,        \* the username field of the form
  isSaving,
  saves,           \* handleSave calls in flight, all clients
  saveAlerts,      \* per client: the kinds of dialogs handleSave has raised
  \* ItemDetail, per client
  isMessaging,     \* of the mounted ItemDetail instance
  calls,           \* handleMessageSeller calls in flight, all clients
  resolveCount,    \* calls started so far
  alerts,          \* per client: the window.alert dialogs ItemDetail has raised
  deletes,         \* per client: the handleDelete call in flight, if any
  \* Messages, per client (state of the mounted instance)
  convList,        \* `conversations`: the grouped conversation list
  selectedConversation,
  msgList,         \* `messages`: the displayed message list
  inputValue,
  myChannel,       \* the channel the subscription effect holds, or 0
  listFetch,       \* the fetchConversations call of the mounted instance
  loads,           \* fetchMessages calls in flight, all clients
  openCount,       \* subscription effects run so far (channels created)
  outbox,          \* message inserts of handleSendMessage on their way to the store
  sendCount,       \* message inserts requested so far
  \* history (read by the properties only)
  quiet,           \* results of the last calls that ran alone, in order
  tainted,         \* the calls in flight have overlapped one another
  released,        \* channels the subscription cleanup has released
  callbacks,       \* per channel: how often its INSERT handler has run, and how
                   \* often it has left the list as it was
  attached,        \* pairs of a send and a channel that existed when it was called
  failures,        \* per client: store requests that have failed
  ignored,         \* per client: the handlers that have returned at their guard
  fetched          \* per run of the subscription effect (numbered as its channel):
                   \* its fetchMessages is "sent", has set the list ("ok"), or "failed"

storeVars  == <<conversations, messages, now, listings, channels>>
appVars    == <<session, activeTab, viewingItem, openConversationId, unreadCount, notes>>
detailVars == <<isMessaging, calls, resolveCount, alerts, deletes>>
viewVars   == <<convList, selectedConversation, msgList, inputValue, myChannel,
                listFetch, loads, openCount, outbox, sendCount>>
histVars   == <<quiet, tainted, attached, failures, ignored, released, callbacks, fetched>>
profileVars == <<profiles, username, isSaving, saves, saveAlerts>>
vars == <<storeVars, appVars, detailVars, viewVars, histVars, profileVars>>

\* ----------------------------------------------------------------- helpers
Range(s) == {s[i] : i \in DOMAIN s}

\* The rows of `rows`, ascending by created_at (created_at is unique per table).
RECURSIVE SortAscending(_)
SortAscending(rows) ==
  IF rows = {} THEN <<>>
  ELSE LET first == CHOOSE r \in rows : \A q \in rows : r.created_at <= q.created_at
       IN  <<first>> \o SortAscending(rows \ {first})

\* The rows of `rows`, descending by created_at.
RECURSIVE SortDescending(_)
SortDescending(rows) ==
  IF rows = {} THEN <<>>
  ELSE LET first == CHOOSE r \in rows : \A q \in rows : r.created_at >= q.created_at
       IN  <<first>> \o SortDescending(rows \ {first})

\* Row level security, "Users see conversations":
\* auth.uid() = buyer_id or auth.uid() = seller_id
UsersSeeConversations(uid, conv) == uid = conv.buyer_id \/ uid = conv.seller_id

\* Row level security, "Users see messages": the conversation of the message
\* has auth.uid() as buyer or seller
UsersSeeMessages(uid, msg) ==
  \E conv \in conversations :
    conv.id = msg.conversation_id /\ (conv.buyer_id = uid \/ conv.seller_id = uid)

\* Messages is rendered for a client iff no item is viewed and the tab is MESSAGES
MessagesShown(tab, item) == item = NoItem /\ tab = TabMESSAGES

\* ------------------------------------------- pure functions of the source
\* variant of the local filter that compares one direction only: the current
\* user as buyer, the seller as seller
ExistingDMsAsBuyer(found, uid, sellerId) ==
  { conv \in found : conv.buyer_id = uid /\ conv.seller_id = sellerId }

\* handleMessageSeller's local filter: the fetched conversations between the
\* current user and the seller, in either direction.  `find` returns the first
\* of them in the order of the response, which the query does not fix (no
\* ORDER BY): any of them can be the one returned.
ExistingDMs(found, uid, sellerId) ==
  { conv \in found :
      \/ (conv.buyer_id = uid /\ conv.seller_id = sellerId)
      \/ (conv.buyer_id = sellerId /\ conv.seller_id = uid) }

\* variant of the reduce that keeps every row
Ungrouped(acc, data, userId) ==
  [i \in DOMAIN data |->
     [id |-> data[i].id, listing_id |-> data[i].listing_id,
      buyer_id |-> data[i].buyer_id, seller_id |-> data[i].seller_id,
      created_at |-> data[i].created_at,
      other_user_id |-> IF data[i].buyer_id = userId THEN data[i].seller_id
                        ELSE data[i].buyer_id]]

\* fetchConversations' reduce: one entry per other user, the first in `data`
RECURSIVE GroupByOtherUser(_, _, _)
GroupByOtherUser(acc, data, userId) ==
  IF data = <<>> THEN acc
  ELSE LET conv    == Head(data)
           otherId == IF conv.buyer_id = userId THEN conv.seller_id ELSE conv.buyer_id
           alreadyExists == \E i \in DOMAIN acc : acc[i].other_user_id = otherId
           next == IF otherId = userId \/ alreadyExists THEN acc
                   ELSE Append(acc, [id |-> conv.id, listing_id |-> conv.listing_id,
                                     buyer_id |-> conv.buyer_id,
                                     seller_id |-> conv.seller_id,
                                     created_at |-> conv.created_at,
                                     other_user_id |-> otherId])
       IN  GroupByOtherUser(next, Tail(data), userId)

\* variant of the INSERT handler that appends without looking at the ids
PushHandlerAppend(prev, new) == Append(prev, new)

\* the INSERT handler's state update: append unless the id is already listed
PushHandler(prev, new) ==
  IF \E i \in DOMAIN prev : prev[i].id = new.id THEN prev ELSE Append(prev, new)

\* variant of trim that returns the string as it is
Untrimmed(s) == s

\* String.prototype.trim on a string given as a sequence of characters
RECURSIVE TrimStart(_)
TrimStart(s) == IF s # <<>> /\ Head(s) = " " THEN TrimStart(Tail(s)) ELSE s
RECURSIVE TrimEnd(_)
TrimEnd(s) ==
  IF s # <<>> /\ s[Len(s)] = " " THEN TrimEnd(SubSeq(s, 1, Len(s) - 1)) ELSE s
Trim(s) == TrimEnd(TrimStart(s))

\* variant of fetchMessages' query with `ascending: false`
SelectMessagesNewestFirst(uid, convId) ==
  SortDescending({ m \in messages : m.conversation_id = convId /\ UsersSeeMessages(uid, m) })

\* `.from('messages').select('*').eq('conversation_id', convId)
\*  .order('created_at', { ascending: true })` as the client `uid`
SelectMessages(uid, convId) ==
  SortAscending({ m \in messages : m.conversation_id = convId /\ UsersSeeMessages(uid, m) })

\* `.from('conversations').select(...).or(buyer_id.eq.uid,seller_id.eq.uid)`
\* as the client `uid`: the rows, in no fixed order
SelectConversationsOf(uid) ==
  { conv \in conversations :
      UsersSeeConversations(uid, conv) /\ (conv.buyer_id = uid \/ conv.seller_id = uid) }

\* variant of the cleanup that leaves the channel with the realtime client
RemoveChannelKept(chs, id) == chs

\* supabase.removeChannel: the channel leaves the realtime client
RemoveChannel(chs, id) == { ch \in chs : ch.id # id }

\* ----------------------------------------------- Messages: effects of a render
\* (formulas over the primed variables of the view, used by the actions below)

selVars == <<selectedConversation, myChannel, openCount, channels, released, callbacks, fetched>>

\* cleanup of the subscription effect: `supabase.removeChannel(channel)`
ChannelsAfterCleanup(u) ==
  IF myChannel[u] = 0 THEN channels ELSE RemoveChannel(channels, myChannel[u])
ReleasedAfterCleanup(u) ==
  IF myChannel[u] = 0 THEN released ELSE released \cup {myChannel[u]}

\* The subscription effect for a newly selected conversation: the cleanup of
\* the previous run, then fetchMessages(conv) and a new channel
\* `chat-<conv>` with an INSERT listener filtered to the conversation.
\* `pending` are the fetchMessages calls in flight before the effect.
SubscriptionEffect(u, conv, pending) ==
     LET n == openCount + 1 IN
       /\ selectedConversation' = [selectedConversation EXCEPT ![u] = conv]
       /\ loads' = pending \cup {[n |-> n, user |-> u, uid |-> session[u], conv |-> conv,
                                  pc |-> "sent", data |-> <<>>, readAt |-> 0]}
       /\ channels' = ChannelsAfterCleanup(u) \cup
                        {[id |-> n, user |-> u, conv |-> conv,
                          state |-> "joining", queue |-> <<>>]}
       /\ released' = ReleasedAfterCleanup(u)
       /\ myChannel' = [myChannel EXCEPT ![u] = n]
       /\ openCount' = n
       /\ callbacks' = callbacks @@ (n :> [runs |-> 0, ignored |-> 0])
       /\ fetched' = fetched @@ (n :> "sent")

\* The effect on [initialConversationId, conversations]: select the list entry
\* whose id is initialConversationId, when there is one.
InitialConversationEffect(u, initialConversationId, list, pending) ==
  LET matches == { i \in DOMAIN list : list[i].id = initialConversationId } IN
  IF /\ initialConversationId # NoConv
     /\ list # <<>>
     /\ matches # {}
     /\ selectedConversation[u] # initialConversationId
  THEN SubscriptionEffect(u, initialConversationId, pending)
  ELSE /\ loads' = pending
       /\ UNCHANGED selVars

\* Messages mounts: fresh state, and the effect on [currentUserId] starts
\* fetchConversations(currentUserId); uid is the userId the call was given
ViewMountAs(u, uid) ==
  /\ listFetch' = [listFetch EXCEPT ![u] = [pc |-> "sent", uid |-> uid, data |-> <<>>]]
  /\ UNCHANGED <<convList, msgList, inputValue, loads, outbox, sendCount, selVars>>

ViewMount(u) == ViewMountAs(u, session[u])

\* Messages unmounts: its state is gone, the subscription effect's cleanup
\* runs, and the responses still in flight find no component to update
ViewUnmount(u) ==
  /\ convList' = [convList EXCEPT ![u] = <<>>]
  /\ selectedConversation' = [selectedConversation EXCEPT ![u] = NoConv]
  /\ msgList' = [msgList EXCEPT ![u] = <<>>]
  /\ inputValue' = [inputValue EXCEPT ![u] = <<>>]
  /\ channels' = ChannelsAfterCleanup(u)
  /\ released' = ReleasedAfterCleanup(u)
  /\ myChannel' = [myChannel EXCEPT ![u] = 0]
  /\ listFetch' = [listFetch EXCEPT ![u] = NoFetch]
  /\ loads' = { l \in loads : l.user # u }
  /\ UNCHANGED <<openCount, callbacks, fetched, outbox, sendCount>>

\* the effect on [activeTab]: `if (activeTab === Tab.MESSAGES) setUnreadCount(0)`
ResetWhenMessages(u, tab) ==
  IF tab # activeTab[u] /\ tab = TabMESSAGES
  THEN [unreadCount EXCEPT ![u] = 0]
  ELSE unreadCount

\* App renders after a state change of client u
AppTransition(u, tab, item, open) ==
  /\ UNCHANGED <<session, notes, profileVars>>
  /\ unreadCount' = ResetWhenMessages(u, tab)
  /\ activeTab' = [activeTab EXCEPT ![u] = tab]
  /\ viewingItem' = [viewingItem EXCEPT ![u] = item]
  /\ openConversationId' = [openConversationId EXCEPT ![u] = open]
  /\ LET was  == MessagesShown(activeTab[u], viewingItem[u])
         will == MessagesShown(tab, item)
     IN  IF was /\ ~will THEN ViewUnmount(u)
         ELSE IF ~was /\ will THEN ViewMount(u)
         ELSE IF was /\ will /\ open # openConversationId[u]
           THEN /\ InitialConversationEffect(u, open, convList[u], loads)
                /\ UNCHANGED <<convList, msgList, inputValue, listFetch, outbox, sendCount>>
         ELSE UNCHANGED <<viewVars, channels, released, callbacks, fetched>>

\* ItemDetail unmounts: the calls it started go on without it
Detach(cs, u) ==
  { IF c.user = u THEN [c EXCEPT !.live = FALSE] ELSE c : c \in cs }

\* ------------------------------------------------- EditProfile: handleSave
\* usernames are sequences of characters
Ann == <<"a", "n", "n">>
Bob == <<"b", "o", "b">>
Cat == <<"c", "a", "t">>
Ali == <<"a", "l", "i">>

\* what the users of the model type into the username field: a free name in
\* two spellings, and a name that is too short once it is cleaned
TypedNames ==
  { <<"A", "l", "i">>,
    <<" ", "a", "l", " ", "i">>,
    <<"a", " ", "l", " ">> }

\* String.prototype.toLowerCase on the letters used
LowerChar(ch) == IF ch = "A" THEN "a" ELSE ch
ToLowerCase(text) == [i \in DOMAIN text |-> LowerChar(text[i])]

\* `.replace(/\s/g, '')`
IsNoSpace(ch) == ch # " "
RemoveSpaces(text) == SelectSeq(text, IsNoSpace)

\* `username.trim().toLowerCase().replace(/\s/g, '')`
CleanUsername(text) == RemoveSpaces(ToLowerCase(Trim(text)))

\* every user has a row (ensureProfileExists), under a name of their own;
\* the form starts with the user's name
ProfilesStarted ==
  /\ profiles = [u \in Users |-> CASE u = "A" -> Ann [] u = "B" -> Bob [] OTHER -> Cat]
  /\ username = profiles
  /\ isSaving = [u \in Users |-> FALSE]
  /\ saves = {}
  /\ saveAlerts = [u \in Users |-> {}]

\* the username field's onChange
setUsername(u, text) ==
  /\ text # username[u]
  /\ username' = [username EXCEPT ![u] = text]
  /\ UNCHANGED <<storeVars, appVars, detailVars, viewVars, histVars,
                 profiles, isSaving, saves, saveAlerts>>

\* the Save button (enabled while not saving) with a cleaned username of
\* fewer than 3 characters, or without a session: an alert, nothing is sent
handleSaveReturn(u) ==
  /\ ~isSaving[u]
  /\ Len(CleanUsername(username[u])) < 3 \/ session[u] = NoUser
  /\ saveAlerts' = [saveAlerts EXCEPT ![u] = @ \cup {"rejected"}]
  /\ UNCHANGED <<storeVars, appVars, detailVars, viewVars, histVars,
                 profiles, username, isSaving, saves>>

\* the Save button otherwise: setIsSaving(true) and the check of the
\* username is sent
handleSave(u) ==
  /\ ~isSaving[u]
  /\ Len(CleanUsername(username[u])) >= 3
  /\ session[u] # NoUser
  /\ isSaving' = [isSaving EXCEPT ![u] = TRUE]
  /\ saves' = saves \cup
       {[user |-> u, uid |-> session[u], username |-> CleanUsername(username[u]),
         pc |-> "check_sent", existing |-> {}]}
  /\ UNCHANGED <<storeVars, appVars, detailVars, viewVars, histVars,
                 profiles, username, saveAlerts>>

\* the store executes `.from('profiles').select('id').eq('username', ...)
\* .neq('id', ...)` ("Profiles are viewable by everyone")
StoreCheckUsername(s) ==
  /\ s.pc = "check_sent"
  /\ saves' = (saves \ {s}) \cup
       {[s EXCEPT !.pc = "check_ok",
                  !.existing = { v \in Users : profiles[v] = s.username /\ v # s.uid }]}
  /\ UNCHANGED <<storeVars, appVars, detailVars, viewVars, histVars,
                 profiles, username, isSaving, saveAlerts>>

\* the save is over: `finally { setIsSaving(false) }`
SaveEnds(s, kind) ==
  /\ saves' = saves \ {s}
  /\ isSaving' = [isSaving EXCEPT ![s.user] = FALSE]
  /\ saveAlerts' = [saveAlerts EXCEPT ![s.user] = @ \cup {kind}]

\* the check's response arrives.  maybeSingle() gives the row, or null for
\* no row, or an error for several rows: with a row handleSave throws
\* ('already taken'), otherwise it goes on and auth.updateUser is sent
CheckResponse(s) ==
  /\ s.pc = "check_ok"
  /\ IF Cardinality(s.existing) = 1
     THEN SaveEnds(s, "taken")
     ELSE /\ saves' = (saves \ {s}) \cup {[s EXCEPT !.pc = "auth_sent", !.existing = {}]}
          /\ UNCHANGED <<isSaving, saveAlerts>>
  /\ UNCHANGED <<storeVars, appVars, detailVars, viewVars, histVars, profiles, username>>

\* the check fails: console.warn('Username check failed, proceeding
\* anyway...'), and auth.updateUser is sent
CheckFailed(s) ==
  /\ s.pc \in {"check_sent", "check_ok"}
  /\ saves' = (saves \ {s}) \cup {[s EXCEPT !.pc = "auth_sent", !.existing = {}]}
  /\ saveAlerts' = [saveAlerts EXCEPT ![s.user] = @ \cup {"check failed"}]
  /\ UNCHANGED <<storeVars, appVars, detailVars, viewVars, histVars,
                 profiles, username, isSaving>>

\* auth.updateUser answers (an error is only logged) and the upsert of the
\* profile row is sent; no file is selected, so nothing is uploaded
AuthAnswered(s) ==
  /\ s.pc = "auth_sent"
  /\ saves' = (saves \ {s}) \cup {[s EXCEPT !.pc = "upsert_sent"]}
  /\ UNCHANGED <<storeVars, appVars, detailVars, viewVars, histVars,
                 profiles, username, isSaving, saveAlerts>>

\* the store executes `.from('profiles').upsert(profileData, { onConflict:
\* 'id' })` under "Users can manage own profile"; the table has the primary
\* key id and no other constraint
StoreUpsertProfile(s) ==
  /\ s.pc = "upsert_sent"
  /\ profiles' = [profiles EXCEPT ![s.uid] = s.username]
  /\ saves' = (saves \ {s}) \cup {[s EXCEPT !.pc = "upsert_ok"]}
  /\ UNCHANGED <<storeVars, appVars, detailVars, viewVars, histVars,
                 username, isSaving, saveAlerts>>

\* its response arrives: alert('Profile updated successfully!'), onBack()
UpsertResponse(s) ==
  /\ s.pc = "upsert_ok"
  /\ SaveEnds(s, "updated")
  /\ UNCHANGED <<storeVars, appVars, detailVars, viewVars, histVars, profiles, username>>

\* the upsert fails: handleSave throws the error, the catch block raises
\* one of its alerts
UpsertFailed(s) ==
  /\ s.pc \in {"upsert_sent", "upsert_ok"}
  /\ SaveEnds(s, "failed")
  /\ UNCHANGED <<storeVars, appVars, detailVars, viewVars, histVars, profiles, username>>

\* -------------------------------------------------------------------- Init
\* every client as the app starts: HOME tab, nothing viewed, nothing in flight
ClientsStarted ==
  /\ channels = {}
  /\ session = [u \in Users |-> u]
  /\ unreadCount = [u \in Users |-> 0]
  /\ notes = {}
  /\ ProfilesStarted
  /\ alerts = [u \in Users |-> 0]
  /\ deletes = [u \in Users |-> NoDelete]
  /\ failures = [u \in Users |-> 0]
  /\ ignored = [u \in Users |-> {}]
  /\ activeTab = [u \in Users |-> TabHOME]
  /\ viewingItem = [u \in Users |-> NoItem]
  /\ openConversationId = [u \in Users |-> NoConv]
  /\ isMessaging = [u \in Users |-> FALSE]
  /\ calls = {}
  /\ convList = [u \in Users |-> <<>>]
  /\ selectedConversation = [u \in Users |-> NoConv]
  /\ msgList = [u \in Users |-> <<>>]
  /\ inputValue = [u \in Users |-> <<>>]
  /\ myChannel = [u \in Users |-> 0]
  /\ listFetch = [u \in Users |-> NoFetch]
  /\ loads = {}
  /\ openCount = 0
  /\ outbox = {}
  /\ quiet = <<>>
  /\ tainted = FALSE
  /\ released = {}
  /\ callbacks = <<>>
  /\ fetched = <<>>
  /\ attached = {}

\* the app starts on an empty store
Init ==
  /\ listings = Listings
  /\ conversations = {}
  /\ messages = {}
  /\ now = 1
  /\ resolveCount = 0
  /\ sendCount = 0
  /\ ClientsStarted

\* --------------------------------------------------------- App: navigation
\* Marketplace/Profile onSelectItem={setViewingItem}
onSelectItem(u, item) ==
  /\ viewingItem[u] = NoItem
  /\ activeTab[u] # TabMESSAGES
  /\ AppTransition(u, activeTab[u], item, openConversationId[u])
  /\ UNCHANGED <<conversations, messages, now, listings, detailVars, quiet, tainted, attached, failures, ignored>>

\* ItemDetail onBack={() => setViewingItem(null)}
onBack(u) ==
  /\ viewingItem[u] # NoItem
  /\ AppTransition(u, activeTab[u], NoItem, openConversationId[u])
  /\ isMessaging' = [isMessaging EXCEPT ![u] = FALSE]
  /\ calls' = Detach(calls, u)
  /\ UNCHANGED <<conversations, messages, now, listings, resolveCount, alerts, deletes,
                 quiet, tainted, attached, failures, ignored>>

\* Navigation onTabChange (Navigation is rendered only while no item is viewed)
onTabChange(u, tab) ==
  /\ viewingItem[u] = NoItem
  /\ AppTransition(u, tab, NoItem, NoConv)
  /\ UNCHANGED <<conversations, messages, now, listings, detailVars, quiet, tainted, attached, failures, ignored>>

\* supabase.auth.onAuthStateChange((_event, session) => setSession(session)):
\* the client's session becomes s.  App renders Login while there is none, so
\* ItemDetail and Messages unmount at a sign-out and mount at a sign-in; when
\* the user changes while Messages stays mounted, its effect on
\* [currentUserId] runs fetchConversations for the new user and the rest of
\* its state stays.
onAuthStateChange(u, s) ==
  /\ s # session[u]
  /\ session' = [session EXCEPT ![u] = s]
  /\ LET wasView    == session[u] # NoUser /\ MessagesShown(activeTab[u], viewingItem[u])
         willView   == s # NoUser /\ MessagesShown(activeTab[u], viewingItem[u])
         wasDetail  == session[u] # NoUser /\ viewingItem[u] # NoItem
         willDetail == s # NoUser /\ viewingItem[u] # NoItem
     IN  /\ IF wasView /\ ~willView THEN ViewUnmount(u)
            ELSE IF willView THEN ViewMountAs(u, s)
            ELSE UNCHANGED <<viewVars, channels, released, callbacks, fetched>>
         /\ IF wasDetail /\ ~willDetail
            THEN /\ isMessaging' = [isMessaging EXCEPT ![u] = FALSE]
                 /\ calls' = Detach(calls, u)
            ELSE UNCHANGED <<isMessaging, calls>>
  /\ UNCHANGED <<activeTab, viewingItem, openConversationId, unreadCount, notes, profileVars,
                 conversations, messages, now,
                 listings, resolveCount, alerts, deletes, quiet, tainted, attached, failures, ignored>>

\* --------------------------------------- ItemDetail: handleMessageSeller
Last2(s) == IF Len(s) > 2 THEN SubSeq(s, Len(s) - 1, Len(s)) ELSE s

\* bookkeeping when call c ends with `path` and conversation id `id`
EndCall(c, id, path) ==
  /\ quiet' = IF tainted THEN <<>>
              ELSE Last2(Append(quiet, [cur |-> c.uid, other |-> c.item.seller_id,
                                        listing |-> c.item.id, id |-> id, path |-> path]))
  /\ tainted' = (tainted /\ (calls \ {c}) # {})

\* App's onMessage(convId), called by the call c of client c.user, and the
\* `finally` of the call
onMessage(c, convId) ==
  /\ AppTransition(c.user, TabMESSAGES, NoItem, convId)
  /\ isMessaging' = [isMessaging EXCEPT ![c.user] = FALSE]
  /\ calls' = Detach(calls \ {c}, c.user)

\* catch and finally of call c: console.error, alert('Could not start chat: ...')
CatchFinally(c) ==
  /\ isMessaging' = IF c.live THEN [isMessaging EXCEPT ![c.user] = FALSE] ELSE isMessaging
  /\ calls' = calls \ {c}
  /\ alerts' = [alerts EXCEPT ![c.user] = @ + 1]
  /\ failures' = [failures EXCEPT ![c.user] = @ + 1]
  /\ UNCHANGED <<appVars, profileVars, viewVars, channels, released, callbacks, fetched, attached, ignored,
                 deletes>>

\* handleMessageSeller past its guard: setIsMessaging(true) and the select is sent
StartCall(u) ==
  /\ resolveCount' = resolveCount + 1
  /\ isMessaging' = [isMessaging EXCEPT ![u] = TRUE]
  /\ calls' = calls \cup {[id |-> resolveCount + 1, user |-> u, uid |-> session[u],
                           token |-> session[u], item |-> viewingItem[u],
                           pc |-> "find_sent", found |-> {}, created |-> NoConv,
                           live |-> TRUE]}
  /\ tainted' = (tainted \/ calls # {})
  /\ quiet' = IF calls # {} THEN <<>> ELSE quiet
  /\ UNCHANGED <<storeVars, appVars, profileVars, viewVars, alerts, deletes, released, callbacks, fetched, attached,
                 failures, ignored>>

\* variant of handleMessageSeller without the check of the session
handleMessageSellerNoSession(u) ==
  /\ viewingItem[u] # NoItem
  /\ viewingItem[u].seller_id # session[u]
  /\ ~isMessaging[u]
  /\ StartCall(u)

\* variant of handleMessageSeller without the check of isMessaging (and of a
\* button that is not disabled meanwhile)
handleMessageSellerAgain(u) ==
  /\ viewingItem[u] # NoItem
  /\ session[u] # NoUser
  /\ viewingItem[u].seller_id # session[u]
  /\ StartCall(u)

\* variant of ItemDetail that shows the message button to the owner too
handleMessageSellerAsOwner(u) ==
  /\ viewingItem[u] # NoItem
  /\ session[u] # NoUser
  /\ ~isMessaging[u]
  /\ StartCall(u)

\* the button "Message Seller" (shown to a non-owner, disabled while isMessaging)
handleMessageSeller(u) ==
  /\ viewingItem[u] # NoItem
  /\ session[u] # NoUser
  /\ viewingItem[u].seller_id # session[u]
  /\ ~isMessaging[u]
  /\ StartCall(u)

\* the button "Message Seller" of an ItemDetail that has no session: the first
\* line of handleMessageSeller returns; nothing is thrown and nothing is shown
handleMessageSellerReturn(u) ==
  /\ viewingItem[u] # NoItem
  /\ viewingItem[u].seller_id # session[u]
  /\ ~isMessaging[u]
  /\ session[u] = NoUser \/ isMessaging[u]
  /\ ignored' = [ignored EXCEPT ![u] = @ \cup {"handleMessageSeller"}]
  /\ UNCHANGED <<storeVars, appVars, profileVars, detailVars, viewVars, quiet, tainted, attached, failures,
                 released, callbacks, fetched>>

\* the store executes the select of call c
StoreFindConversations(c) ==
  /\ c.pc = "find_sent"
  /\ calls' = (calls \ {c}) \cup
       {[c EXCEPT !.pc = "find_ok",
                  !.found = { [id |-> r.id, buyer_id |-> r.buyer_id, seller_id |-> r.seller_id] :
                              r \in SelectConversationsOf(c.uid) }]}
  /\ UNCHANGED <<storeVars, appVars, profileVars, isMessaging, resolveCount, alerts, deletes, viewVars, histVars>>

\* the select's response arrives: the local filter, then onMessage or the insert
FindResponse(c) ==
  /\ c.pc = "find_ok"
  /\ LET dms == ExistingDMs(c.found, c.uid, c.item.seller_id) IN
     IF dms # {}
     THEN \E existingDM \in dms :
            /\ onMessage(c, existingDM.id)
            /\ EndCall(c, existingDM.id, "found")
            /\ UNCHANGED <<conversations, messages, now, listings, resolveCount, alerts, deletes,
                           attached, failures, ignored>>
     ELSE /\ calls' = (calls \ {c}) \cup
                      {[c EXCEPT !.pc = "insert_sent", !.token = session[c.user]]}
          /\ UNCHANGED <<storeVars, appVars, profileVars, isMessaging, resolveCount, alerts, deletes, viewVars, histVars>>

\* variant of the select's failure that goes on to the insert
FindFailedThenInsert(c) ==
  /\ c.pc \in {"find_sent", "find_ok"}
  /\ calls' = (calls \ {c}) \cup {[c EXCEPT !.pc = "insert_sent"]}
  /\ failures' = [failures EXCEPT ![c.user] = @ + 1]
  /\ UNCHANGED <<storeVars, appVars, profileVars, isMessaging, resolveCount, alerts, deletes, viewVars, quiet, tainted,
                 attached, ignored, released, callbacks, fetched>>

\* the select fails (findError): catch, finally
FindFailed(c) ==
  /\ c.pc \in {"find_sent", "find_ok"}
  /\ CatchFinally(c)
  /\ EndCall(c, NoConv, "error")
  /\ UNCHANGED <<conversations, messages, now, listings, resolveCount>>

\* variant of the store with a unique index over the unordered pair and an
\* insert that returns the row already there (on conflict do nothing)
InsertConversationUniquePair(c) ==
  /\ c.pc = "insert_sent"
  /\ LET there == { conv \in conversations :
                      {conv.buyer_id, conv.seller_id} = {c.uid, c.item.seller_id} } IN
     IF there = {}
     THEN /\ conversations' = conversations \cup
               {[id |-> c.id, created_at |-> now, listing_id |-> c.item.id,
                 buyer_id |-> c.uid, seller_id |-> c.item.seller_id]}
          /\ now' = now + 1
          /\ calls' = (calls \ {c}) \cup {[c EXCEPT !.pc = "insert_ok", !.created = c.id]}
     ELSE /\ \E conv \in there :
               calls' = (calls \ {c}) \cup
                          {[c EXCEPT !.pc = "insert_ok", !.created = conv.id]}
          /\ UNCHANGED <<conversations, now>>
  /\ UNCHANGED <<messages, listings, channels, appVars, profileVars, isMessaging, resolveCount, alerts, deletes, viewVars, histVars>>

\* variant of the insert that does not store the listing the contact came from
InsertConversationNoListing(c) ==
  /\ c.pc = "insert_sent"
  /\ c.token = c.uid
  /\ conversations' = conversations \cup
       {[id |-> c.id, created_at |-> now, listing_id |-> NoItem.id,
         buyer_id |-> c.uid, seller_id |-> c.item.seller_id]}
  /\ now' = now + 1
  /\ calls' = (calls \ {c}) \cup {[c EXCEPT !.pc = "insert_ok", !.created = c.id]}
  /\ UNCHANGED <<messages, listings, channels, appVars, profileVars, isMessaging, resolveCount, alerts, deletes, viewVars, histVars>>

\* the store executes the insert of call c; "Users start conversations"
\* checks auth.uid() = buyer_id, the foreign key checks the listing
InsertConversation(c) ==
  /\ c.pc = "insert_sent"
  /\ c.token = c.uid
  /\ \E l \in listings : l.id = c.item.id
  /\ conversations' = conversations \cup
       {[id |-> c.id, created_at |-> now, listing_id |-> c.item.id,
         buyer_id |-> c.uid, seller_id |-> c.item.seller_id]}
  /\ now' = now + 1
  /\ calls' = (calls \ {c}) \cup {[c EXCEPT !.pc = "insert_ok", !.created = c.id]}
  /\ UNCHANGED <<messages, listings, channels, appVars, profileVars, isMessaging, resolveCount, alerts, deletes, viewVars, histVars>>

\* the insert's response arrives with the created row
InsertResponse(c) ==
  /\ c.pc = "insert_ok"
  /\ onMessage(c, c.created)
  /\ EndCall(c, c.created, "created")
  /\ UNCHANGED <<conversations, messages, now, listings, resolveCount, alerts, deletes,
                           attached, failures, ignored>>

\* the insert fails (createError): the store rejects it or is not reached
InsertFailed(c) ==
  /\ c.pc = "insert_sent"
  /\ CatchFinally(c)
  /\ EndCall(c, NoConv, "error")
  /\ UNCHANGED <<conversations, messages, now, listings, resolveCount>>

\* ------------------------------------------------------------- Messages
\* the store executes the select of fetchConversations(u)
StoreListConversations(u) ==
  /\ listFetch[u].pc = "sent"
  /\ listFetch' = [listFetch EXCEPT ![u] =
                     [listFetch[u] EXCEPT !.pc = "ok",
                                          !.data = SortDescending(SelectConversationsOf(listFetch[u].uid))]]
  /\ UNCHANGED <<storeVars, appVars, profileVars, detailVars, histVars, convList, selectedConversation,
                 msgList, inputValue, myChannel, loads, openCount, outbox, sendCount>>

\* its response arrives: group by other user, setConversations, and the
\* effect on [initialConversationId, conversations]
ListResponse(u) ==
  /\ listFetch[u].pc = "ok"
  /\ LET grouped == GroupByOtherUser(<<>>, listFetch[u].data, listFetch[u].uid) IN
       /\ convList' = [convList EXCEPT ![u] = grouped]
       /\ InitialConversationEffect(u, openConversationId[u], grouped, loads)
  /\ listFetch' = [listFetch EXCEPT ![u] = NoFetch]
  /\ UNCHANGED <<conversations, messages, now, listings, appVars, profileVars, detailVars, quiet, tainted, attached, failures, ignored,
                 msgList, inputValue, outbox, sendCount>>

\* fetchConversations fails: console.error, the list stays as it is
ListFailed(u) ==
  /\ listFetch[u].pc \in {"sent", "ok"}
  /\ listFetch' = [listFetch EXCEPT ![u] = NoFetch]
  /\ failures' = [failures EXCEPT ![u] = @ + 1]
  /\ UNCHANGED <<storeVars, appVars, profileVars, detailVars, quiet, tainted, attached, ignored, released,
                 callbacks, fetched, convList, selectedConversation,
                 msgList, inputValue, myChannel, loads, openCount, outbox, sendCount>>

\* click on an entry of the conversation list: setSelectedConversation(chat)
selectConversation(u, chat) ==
  /\ MessagesShown(activeTab[u], viewingItem[u])
  /\ selectedConversation[u] = NoConv
  /\ chat \in Range(convList[u])
  /\ SubscriptionEffect(u, chat.id, loads)
  /\ UNCHANGED <<conversations, messages, now, listings, appVars, profileVars, detailVars, quiet, tainted, attached, failures, ignored,
                 convList, msgList, inputValue, listFetch, outbox, sendCount>>

\* variant of the back button whose effect has no cleanup: the channel stays
closeConversationNoCleanup(u) ==
  /\ selectedConversation[u] # NoConv
  /\ selectedConversation' = [selectedConversation EXCEPT ![u] = NoConv]
  /\ myChannel' = [myChannel EXCEPT ![u] = 0]
  /\ UNCHANGED <<storeVars, appVars, profileVars, detailVars, histVars,
                 convList, msgList, inputValue, listFetch, loads, openCount,
                 outbox, sendCount>>

\* the header's back button: setSelectedConversation(null); the effect's cleanup
closeConversation(u) ==
  /\ selectedConversation[u] # NoConv
  /\ selectedConversation' = [selectedConversation EXCEPT ![u] = NoConv]
  /\ channels' = ChannelsAfterCleanup(u)
  /\ released' = ReleasedAfterCleanup(u)
  /\ myChannel' = [myChannel EXCEPT ![u] = 0]
  /\ UNCHANGED <<conversations, messages, now, listings, appVars, profileVars, detailVars, quiet, tainted, attached, failures, ignored,
                 callbacks, fetched, convList, msgList, inputValue, listFetch, loads, openCount,
                 outbox, sendCount>>

\* the store executes the select of fetchMessages
StoreSelectMessages(l) ==
  /\ l.pc = "sent"
  /\ loads' = (loads \ {l}) \cup
       {[l EXCEPT !.pc = "ok", !.data = SelectMessages(l.uid, l.conv), !.readAt = now]}
  /\ UNCHANGED <<storeVars, appVars, profileVars, detailVars, histVars, convList, selectedConversation,
                 msgList, inputValue, myChannel, listFetch, openCount, outbox, sendCount>>

\* its response arrives: setMessages(data || [])
LoadResponse(l) ==
  /\ l.pc = "ok"
  /\ msgList' = [msgList EXCEPT ![l.user] = l.data]
  /\ loads' = loads \ {l}
  /\ fetched' = [fetched EXCEPT ![l.n] = "ok"]
  /\ UNCHANGED <<storeVars, appVars, profileVars, detailVars, quiet, tainted, attached, failures, ignored,
                 released, callbacks, convList, selectedConversation,
                 inputValue, myChannel, listFetch, openCount, outbox, sendCount>>

\* fetchMessages fails: console.error
LoadFailed(l) ==
  /\ l.pc \in {"sent", "ok"}
  /\ loads' = loads \ {l}
  /\ failures' = [failures EXCEPT ![l.user] = @ + 1]
  /\ fetched' = [fetched EXCEPT ![l.n] = "failed"]
  /\ UNCHANGED <<storeVars, appVars, profileVars, detailVars, quiet, tainted, attached, ignored, released,
                 callbacks, convList, selectedConversation,
                 msgList, inputValue, myChannel, listFetch, openCount, outbox, sendCount>>

\* the realtime service acknowledges `.subscribe()`: from now on the inserts
\* that pass the channel's filter are pushed to the client
ChannelJoined(ch) ==
  /\ ch.state = "joining"
  /\ channels' = (channels \ {ch}) \cup {[ch EXCEPT !.state = "joined"]}
  /\ UNCHANGED <<conversations, messages, now, listings, appVars, profileVars, detailVars, histVars, viewVars>>

\* a push event reaches the client: the INSERT handler
PushEvent(ch) ==
  /\ ch.queue # <<>>
  /\ msgList' = [msgList EXCEPT ![ch.user] = PushHandler(@, Head(ch.queue))]
  /\ channels' = (channels \ {ch}) \cup {[ch EXCEPT !.queue = Tail(ch.queue)]}
  /\ callbacks' = [callbacks EXCEPT ![ch.id] =
                     [runs |-> @.runs + 1,
                      ignored |-> @.ignored +
                        (IF msgList'[ch.user] = msgList[ch.user] THEN 1 ELSE 0)]]
  /\ UNCHANGED <<conversations, messages, now, listings, appVars, profileVars, detailVars, quiet, tainted, attached, failures, ignored, released,
                 fetched, convList, selectedConversation, inputValue, myChannel, listFetch,
                 loads, openCount, outbox, sendCount>>

\* the input's onChange
onChange(u, value) ==
  /\ selectedConversation[u] # NoConv
  /\ inputValue' = [inputValue EXCEPT ![u] = value]
  /\ UNCHANGED <<storeVars, appVars, profileVars, detailVars, histVars, convList, selectedConversation,
                 msgList, myChannel, listFetch, loads, openCount, outbox, sendCount>>

\* the send button / Enter while there is nothing to send: the first line of
\* handleSendMessage returns.  The promise resolves as it does after a send,
\* nothing is thrown and nothing is shown.
handleSendMessageReturn(u) ==
  /\ session[u] # NoUser
  /\ selectedConversation[u] # NoConv
  /\ Trim(inputValue[u]) = <<>>
  /\ ignored' = [ignored EXCEPT ![u] = @ \cup {"handleSendMessage"}]
  /\ UNCHANGED <<storeVars, appVars, profileVars, detailVars, viewVars, quiet, tainted, attached, failures,
                 released, callbacks, fetched>>

\* variant of handleSendMessage that also puts the message into the sender's
\* list at once, under a local id
handleSendMessageOptimistic(u) ==
  /\ Trim(inputValue[u]) # <<>>
  /\ selectedConversation[u] # NoConv
  /\ session[u] # NoUser
  /\ LET text == Trim(inputValue[u]) IN
       /\ outbox' = outbox \cup {[n |-> sendCount + 1, user |-> u,
                                  conversation_id |-> selectedConversation[u],
                                  sender_id |-> session[u], token |-> session[u],
                                  text |-> text]}
       /\ msgList' = [msgList EXCEPT ![u] =
                        Append(@, [id |-> 0, created_at |-> now,
                                   conversation_id |-> selectedConversation[u],
                                   sender_id |-> session[u], text |-> text])]
  /\ sendCount' = sendCount + 1
  /\ inputValue' = [inputValue EXCEPT ![u] = <<>>]
  /\ attached' = attached \cup
       { [n |-> sendCount + 1, ch |-> ch.id, user |-> ch.user] :
         ch \in { x \in channels : x.conv = selectedConversation[u] } }
  /\ UNCHANGED <<storeVars, appVars, profileVars, detailVars, quiet, tainted, released, callbacks, fetched,
                 failures, ignored,
                 convList, selectedConversation, myChannel, listFetch, loads,
                 openCount>>

\* variant of handleSendMessage that sends the input as typed
handleSendMessageRaw(u) ==
  /\ Trim(inputValue[u]) # <<>>
  /\ selectedConversation[u] # NoConv
  /\ session[u] # NoUser
  /\ outbox' = outbox \cup {[n |-> sendCount + 1, user |-> u,
                              conversation_id |-> selectedConversation[u],
                              sender_id |-> session[u], token |-> session[u],
                              text |-> inputValue[u]]}
  /\ sendCount' = sendCount + 1
  /\ inputValue' = [inputValue EXCEPT ![u] = <<>>]
  /\ attached' = attached \cup
       { [n |-> sendCount + 1, ch |-> ch.id, user |-> ch.user] :
         ch \in { x \in channels : x.conv = selectedConversation[u] } }
  /\ UNCHANGED <<storeVars, appVars, profileVars, detailVars, quiet, tainted, released, callbacks, fetched,
                 failures, ignored,
                 convList, selectedConversation, msgList, myChannel, listFetch, loads,
                 openCount>>

\* the send button / Enter with a text to send
handleSendMessage(u) ==
  /\ Trim(inputValue[u]) # <<>>
  /\ selectedConversation[u] # NoConv
  /\ session[u] # NoUser
  /\ LET text == Trim(inputValue[u]) IN
       outbox' = outbox \cup {[n |-> sendCount + 1, user |-> u,
                               conversation_id |-> selectedConversation[u],
                               sender_id |-> session[u], token |-> session[u],
                               text |-> text]}
  /\ sendCount' = sendCount + 1
  /\ inputValue' = [inputValue EXCEPT ![u] = <<>>]
  /\ attached' = attached \cup
       { [n |-> sendCount + 1, ch |-> ch.id, user |-> ch.user] :
         ch \in { x \in channels : x.conv = selectedConversation[u] } }
  /\ UNCHANGED <<storeVars, appVars, profileVars, detailVars, quiet, tainted, released, callbacks, fetched,
                 failures, ignored,
                 convList, selectedConversation, msgList, myChannel, listFetch, loads,
                 openCount>>

\* the joined channels whose filter `conversation_id=eq.<conv>` and whose
\* client's row level security pass the new row get the event
Publish(chs, msg) ==
  { IF /\ ch.state = "joined"
       /\ ch.conv = msg.conversation_id
       /\ UsersSeeMessages(session[ch.user], msg)
    THEN [ch EXCEPT !.queue = Append(@, msg)] ELSE ch : ch \in chs }

\* the store executes the insert of a message ("Users send messages" checks
\* auth.uid() = sender_id) and publishes the change
InsertMessage(o) ==
  /\ o.token = o.sender_id
  /\ \E conv \in conversations : conv.id = o.conversation_id
  /\ LET msg == [id |-> o.n, created_at |-> now, conversation_id |-> o.conversation_id,
                 sender_id |-> o.sender_id, text |-> o.text] IN
       /\ messages' = messages \cup {msg}
       /\ channels' = Publish(channels, msg)
  /\ now' = now + 1
  /\ outbox' = outbox \ {o}
  /\ UNCHANGED <<conversations, listings, appVars, profileVars, detailVars, histVars, convList, selectedConversation,
                 msgList, inputValue, myChannel, listFetch, loads, openCount, sendCount>>

\* ------------------------------------------- App: global notifications
\* variant of the handler without the check of the sender
NotifyAnySender(u, m) ==
  /\ session[u] # NoUser
  /\ m \in messages
  /\ \A n \in notes : ~(n.user = u /\ n.msg = m.id)
  /\ notes' = notes \cup
       {[user |-> u, uid |-> session[u], tab |-> activeTab[u], msg |-> m.id,
         conversation_id |-> m.conversation_id, sender_id |-> m.sender_id,
         pc |-> "lookup_sent", conv |-> {}]}
  /\ UNCHANGED <<storeVars, session, activeTab, viewingItem, openConversationId, unreadCount,
                 profileVars,
                 detailVars, viewVars, histVars>>

\* the tab the handler compares: `activeTab` of the render whose effect
\* subscribed the channel, as the closure holds it
TabSeen(n) == n.tab

\* the INSERT event of message m reaches the handler of client u's channel
\* 'global-notifications': for a message of another sender the lookup of the
\* conversation is sent, for an own message the handler is done
Notify(u, m) ==
  /\ session[u] # NoUser
  /\ m \in messages
  /\ \A n \in notes : ~(n.user = u /\ n.msg = m.id)
  /\ notes' = notes \cup
       {[user |-> u, uid |-> session[u], tab |-> activeTab[u], msg |-> m.id,
         conversation_id |-> m.conversation_id, sender_id |-> m.sender_id,
         pc |-> IF m.sender_id # session[u] THEN "lookup_sent" ELSE "done",
         conv |-> {}]}
  /\ UNCHANGED <<storeVars, session, activeTab, viewingItem, openConversationId, unreadCount,
                 profileVars,
                 detailVars, viewVars, histVars>>

\* the store executes `.from('conversations').select(...).eq('id', ...)` of
\* the handler run n, under "Users see conversations"
StoreLookup(n) ==
  /\ n.pc = "lookup_sent"
  /\ notes' = (notes \ {n}) \cup
       {[n EXCEPT !.pc = "lookup_ok",
                  !.conv = { conv \in conversations :
                               /\ conv.id = n.conversation_id
                               /\ UsersSeeConversations(session[n.user], conv) }]}
  /\ UNCHANGED <<storeVars, session, activeTab, viewingItem, openConversationId, unreadCount,
                 profileVars,
                 detailVars, viewVars, histVars>>

\* the lookup's response arrives: triggerMessageDot() when the conversation
\* is one of the user's and the tab of the closure is not MESSAGES
LookupResponse(n) ==
  /\ n.pc = "lookup_ok"
  /\ notes' = (notes \ {n}) \cup {[n EXCEPT !.pc = "done"]}
  /\ unreadCount' =
       IF /\ \E conv \in n.conv : conv.buyer_id = n.uid \/ conv.seller_id = n.uid
          /\ TabSeen(n) # TabMESSAGES
       THEN [unreadCount EXCEPT ![n.user] = @ + 1]
       ELSE unreadCount
  /\ UNCHANGED <<storeVars, session, activeTab, viewingItem, openConversationId, profileVars,
                 detailVars, viewVars, histVars>>

\* the lookup fails: `conv` is undefined and the handler is done
LookupFailed(n) ==
  /\ n.pc \in {"lookup_sent", "lookup_ok"}
  /\ notes' = (notes \ {n}) \cup {[n EXCEPT !.pc = "done"]}
  /\ failures' = [failures EXCEPT ![n.user] = @ + 1]
  /\ UNCHANGED <<storeVars, session, activeTab, viewingItem, openConversationId, unreadCount,
                 profileVars,
                 detailVars, viewVars, quiet, tainted, attached, ignored, released,
                 callbacks, fetched>>

\* ------------------------------------------------- ItemDetail: handleDelete
\* `on delete cascade` of conversations.listing_id and of
\* messages.conversation_id: what is left of the three tables when the
\* listing `id` is deleted
ListingsAfterDelete(id) == { l \in listings : l.id # id }
ConversationsAfterDelete(id) == { conv \in conversations : conv.listing_id # id }
MessagesAfterDelete(id) ==
  { m \in messages : \E conv \in ConversationsAfterDelete(id) : conv.id = m.conversation_id }

\* the owner's "Delete Listing" button, confirmed: setIsDeleting(true) and
\* the delete is sent
handleDelete(u) ==
  /\ viewingItem[u] # NoItem
  /\ session[u] # NoUser
  /\ viewingItem[u].seller_id = session[u]
  /\ deletes[u].pc = "none"
  /\ deletes' = [deletes EXCEPT ![u] = [pc |-> "sent", item |-> viewingItem[u]]]
  /\ UNCHANGED <<storeVars, appVars, profileVars, isMessaging, calls, resolveCount, alerts, viewVars,
                 histVars>>

\* the store executes `delete from listings where id = item.id`, with the
\* cascades of the schema
StoreDeleteListing(u) ==
  /\ deletes[u].pc = "sent"
  /\ listings' = ListingsAfterDelete(deletes[u].item.id)
  /\ conversations' = ConversationsAfterDelete(deletes[u].item.id)
  /\ messages' = MessagesAfterDelete(deletes[u].item.id)
  /\ deletes' = [deletes EXCEPT ![u].pc = "ok"]
  /\ UNCHANGED <<now, channels, appVars, profileVars, isMessaging, calls, resolveCount, alerts, viewVars,
                 histVars>>

\* its response arrives: alert('Listing successfully removed.'), onBack(),
\* setIsDeleting(false)
DeleteResponse(u) ==
  /\ deletes[u].pc = "ok"
  /\ alerts' = [alerts EXCEPT ![u] = @ + 1]
  /\ AppTransition(u, activeTab[u], NoItem, openConversationId[u])
  /\ isMessaging' = [isMessaging EXCEPT ![u] = FALSE]
  /\ calls' = Detach(calls, u)
  /\ deletes' = [deletes EXCEPT ![u] = NoDelete]
  /\ UNCHANGED <<conversations, messages, now, listings, resolveCount,
                 quiet, tainted, attached, failures, ignored>>

\* the delete fails: console.error, alert('Error deleting item: ...'),
\* setIsDeleting(false)
DeleteFailed(u) ==
  /\ deletes[u].pc \in {"sent", "ok"}
  /\ alerts' = [alerts EXCEPT ![u] = @ + 1]
  /\ failures' = [failures EXCEPT ![u] = @ + 1]
  /\ deletes' = [deletes EXCEPT ![u] = NoDelete]
  /\ UNCHANGED <<storeVars, appVars, profileVars, isMessaging, calls, resolveCount, viewVars,
                 quiet, tainted, attached, ignored, released, callbacks, fetched>>

\* the insert fails: handleSendMessage does not look at the result
SendFailed(o) ==
  /\ outbox' = outbox \ {o}
  /\ failures' = [failures EXCEPT ![o.user] = @ + 1]
  /\ UNCHANGED <<storeVars, appVars, profileVars, detailVars, quiet, tainted, attached, ignored, released,
                 callbacks, fetched, convList, selectedConversation,
                 msgList, inputValue, myChannel, listFetch, loads, openCount, sendCount>>

\* some typed texts
Hello    == <<"h", "e", "l", "l", "o">>
Hi       == <<"h", "i">>
HiPadded == <<" ", "h", "i", " ">>
HelloPadded == <<" ", "h", "e", "l", "l", "o">>
Blank    == <<" ", " ">>

\* ------------------------------------------------------------ specifications
\* The resolver under concurrency.  Clients A and B are running; C has
\* contacted B about L2 earlier, has sent one message and is away.
ResolveUsers == {"A", "B"}

InitResolve ==
  /\ listings = Listings
  /\ conversations = {[id |-> 1, created_at |-> 1, listing_id |-> "L2",
                       buyer_id |-> "C", seller_id |-> "B"]}
  /\ messages = {[id |-> 1, created_at |-> 2, conversation_id |-> 1,
                  sender_id |-> "C", text |-> Hi]}
  /\ now = 3
  /\ resolveCount = 1
  /\ sendCount = 1
  /\ ClientsStarted

\* Every interleaving of MaxRaceCalls calls of A and B with their navigation.
NextRace ==
  \/ \E u \in ResolveUsers, item \in Listings : onSelectItem(u, item)
  \/ \E u \in ResolveUsers : onBack(u)
  \/ \E u \in ResolveUsers, tab \in Tabs : onTabChange(u, tab)
  \/ \E u \in ResolveUsers : resolveCount <= MaxRaceCalls /\ handleMessageSeller(u)
  \/ \E c \in calls : StoreFindConversations(c)
  \/ \E c \in calls : FindResponse(c)
  \/ \E c \in calls : FindFailed(c)
  \/ \E c \in calls : InsertConversation(c)
  \/ \E c \in calls : InsertResponse(c)
  \/ \E c \in calls : InsertFailed(c)

SpecRace == InitResolve /\ [][NextRace]_vars

\* Longer runs of the resolver: up to MaxResolves calls, where a client views
\* the other client's listings, leaves Messages by the HOME tab and starts a
\* call only when its previous one has ended.
NextResolve ==
  \/ \E u \in ResolveUsers, item \in Listings :
       item.seller_id \in ResolveUsers \ {u} /\ onSelectItem(u, item)
  \/ \E u \in ResolveUsers : onTabChange(u, TabHOME)
  \/ \E u \in ResolveUsers :
       /\ resolveCount <= MaxResolves
       /\ \A c \in calls : c.user # u
       /\ handleMessageSeller(u)
  \/ \E c \in calls : StoreFindConversations(c)
  \/ \E c \in calls : FindResponse(c)
  \/ \E c \in calls : FindFailed(c)
  \/ \E c \in calls : InsertConversation(c)
  \/ \E c \in calls : InsertResponse(c)
  \/ \E c \in calls : InsertFailed(c)

SpecResolve == InitResolve /\ [][NextResolve]_vars

\* The scenario of first contact: from the same state A and B contact each
\* other (MaxChatCalls calls, one at a time per client), the Messages view
\* opens the conversation handed over, and they send (MaxChatSends messages).
\* The realtime service is left silent here: the channels stay unacknowledged,
\* so every list comes from fetchMessages alone.
NextScenario ==
  \/ \E u \in ResolveUsers, item \in Listings :
       item.seller_id \in ResolveUsers \ {u} /\ onSelectItem(u, item)
  \/ \E u \in ResolveUsers :
       /\ resolveCount <= MaxChatCalls
       /\ \A c \in calls : c.user # u
       /\ handleMessageSeller(u)
  \/ \E c \in calls : StoreFindConversations(c)
  \/ \E c \in calls : FindResponse(c)
  \/ \E c \in calls : InsertConversation(c)
  \/ \E c \in calls : InsertResponse(c)
  \/ \E u \in ResolveUsers : StoreListConversations(u)
  \/ \E u \in ResolveUsers : ListResponse(u)
  \/ \E l \in loads : StoreSelectMessages(l)
  \/ \E l \in loads : LoadResponse(l)
  \/ inputValue["A"] = <<>> /\ sendCount <= MaxChatSends /\ onChange("A", Hello)
  \/ inputValue["B"] = <<>> /\ sendCount <= MaxChatSends /\ onChange("B", HiPadded)
  \/ \E u \in ResolveUsers : sendCount <= MaxChatSends /\ handleSendMessage(u)
  \/ \E o \in outbox : InsertMessage(o)

SpecScenario == InitResolve /\ [][NextScenario]_vars

\* The same with the store answering every read: a select that was sent is
\* executed, and its response arrives (the reads of the store succeed).
ReadsAnswered ==
  /\ \A u \in ResolveUsers : WF_vars(StoreListConversations(u))
  /\ \A u \in ResolveUsers : WF_vars(ListResponse(u))
  /\ WF_vars(\E l \in loads : StoreSelectMessages(l))
  /\ WF_vars(\E l \in loads : LoadResponse(l))

SpecScenarioFair == SpecScenario /\ ReadsAnswered

\* The message stream.  A has contacted B about L2 (the second conversation)
\* and they have exchanged "hello" and "hi".  Both clients show the Messages
\* tab with their conversation list loaded; A has the conversation open, its
\* messages loaded and its channel joined.  B opens and closes conversations
\* (until MaxOpens channels have been created after the first) while A sends
\* (MaxSends messages, the next one typed when the previous one is stored).
StreamConversations ==
  { [id |-> 1, created_at |-> 1, listing_id |-> "L2", buyer_id |-> "C", seller_id |-> "B"],
    [id |-> 2, created_at |-> 3, listing_id |-> "L2", buyer_id |-> "A", seller_id |-> "B"] }

StreamMessages ==
  { [id |-> 1, created_at |-> 2, conversation_id |-> 1, sender_id |-> "C", text |-> Hi],
    [id |-> 3, created_at |-> 4, conversation_id |-> 2, sender_id |-> "A", text |-> Hello],
    [id |-> 2, created_at |-> 5, conversation_id |-> 2, sender_id |-> "B", text |-> Hi] }

StreamList(u) ==
  GroupByOtherUser(<<>>, SortDescending({c \in StreamConversations :
                                           UsersSeeConversations(u, c)}), u)

InitStream ==
  /\ listings = Listings
  /\ session = [u \in Users |-> u]
  /\ unreadCount = [u \in Users |-> 0]
  /\ notes = {}
  /\ ProfilesStarted
  /\ alerts = [u \in Users |-> 0]
  /\ deletes = [u \in Users |-> NoDelete]
  /\ failures = [u \in Users |-> 0]
  /\ ignored = [u \in Users |-> {}]
  /\ conversations = StreamConversations
  /\ messages = StreamMessages
  /\ now = 6
  /\ resolveCount = 2
  /\ sendCount = 3
  /\ channels = {[id |-> 1, user |-> "A", conv |-> 2, state |-> "joined", queue |-> <<>>]}
  /\ activeTab = [u \in Users |-> IF u \in ResolveUsers THEN TabMESSAGES ELSE TabHOME]
  /\ viewingItem = [u \in Users |-> NoItem]
  /\ openConversationId = [u \in Users |-> NoConv]
  /\ isMessaging = [u \in Users |-> FALSE]
  /\ calls = {}
  /\ convList = [u \in Users |-> IF u \in ResolveUsers THEN StreamList(u) ELSE <<>>]
  /\ selectedConversation = [u \in Users |-> IF u = "A" THEN 2 ELSE NoConv]
  /\ msgList = [u \in Users |->
                  IF u = "A"
                  THEN SortAscending({m \in StreamMessages : m.conversation_id = 2})
                  ELSE <<>>]
  /\ inputValue = [u \in Users |-> <<>>]
  /\ myChannel = [u \in Users |-> IF u = "A" THEN 1 ELSE 0]
  /\ listFetch = [u \in Users |-> NoFetch]
  /\ loads = {}
  /\ openCount = 1
  /\ outbox = {}
  /\ quiet = <<>>
  /\ tainted = FALSE
  /\ released = {}
  /\ callbacks = <<[runs |-> 0, ignored |-> 0]>>
  /\ fetched = <<"ok">>
  /\ attached = {}

NextStream ==
  \/ \E i \in 1..Len(convList["B"]) :
       /\ openCount <= MaxOpens
       /\ selectConversation("B", convList["B"][i])
  \/ closeConversation("B")
  \/ \E l \in loads : StoreSelectMessages(l)
  \/ \E l \in loads : LoadResponse(l)
  \/ \E ch \in channels : ChannelJoined(ch)
  \/ \E ch \in channels : PushEvent(ch)
  \/ /\ inputValue["A"] = <<>>
     /\ outbox = {}
     /\ sendCount < Cardinality(StreamMessages) + MaxSends
     /\ onChange("A", HelloPadded)
  \/ handleSendMessage("A")
  \/ \E o \in outbox : InsertMessage(o)

SpecStream == InitStream /\ [][NextStream]_vars

\* Composing and sending.  From the same state A types, presses send with and
\* without a text (MaxComposeSends messages), B opens and closes conversations
\* (MaxComposeOpens channels), and the store may fail a load or a send.  A
\* types while the input holds nothing to send and no send is on its way; B
\* opens a conversation while no send is on its way.
Typed == {<<>>, Blank, Hello, HiPadded}

NextCompose ==
  \/ \E value \in Typed :
       /\ outbox = {}
       /\ Trim(inputValue["A"]) = <<>>
       /\ onChange("A", value)
  \/ /\ sendCount < Cardinality(StreamMessages) + MaxComposeSends
     /\ handleSendMessage("A")
  \/ handleSendMessageReturn("A")
  \/ \E o \in outbox : InsertMessage(o)
  \/ \E o \in outbox : SendFailed(o)
  \/ \E i \in 1..Len(convList["B"]) :
       /\ openCount <= MaxComposeOpens
       /\ outbox = {}
       /\ selectConversation("B", convList["B"][i])
  \/ closeConversation("B")
  \/ \E l \in loads : StoreSelectMessages(l)
  \/ \E l \in loads : LoadResponse(l)
  \/ \E l \in loads : LoadFailed(l)
  \/ \E ch \in channels : ChannelJoined(ch)
  \/ \E ch \in channels : PushEvent(ch)

SpecCompose == InitStream /\ [][NextCompose]_vars

\* A change of the signed-in user.  From the same state the session of A's
\* client changes, to no user or to another user (the next change when the
\* conversation list of the previous one has arrived), and whoever is signed
\* in opens conversations (MaxSessionOpens channels) and sends
\* (MaxSessionSends messages).
NextSession ==
  \/ \E s \in Users \cup {NoUser} :
       listFetch["A"].pc = "none" /\ onAuthStateChange("A", s)
  \/ StoreListConversations("A")
  \/ ListResponse("A")
  \/ \E i \in 1..Len(convList["A"]) :
       /\ openCount <= MaxSessionOpens
       /\ selectConversation("A", convList["A"][i])
  \/ closeConversation("A")
  \/ \E l \in loads : StoreSelectMessages(l)
  \/ \E l \in loads : LoadResponse(l)
  \/ \E ch \in channels : ChannelJoined(ch)
  \/ \E ch \in channels : PushEvent(ch)
  \/ inputValue["A"] = <<>> /\ onChange("A", Hello)
  \/ /\ sendCount < Cardinality(StreamMessages) + MaxSessionSends
     /\ handleSendMessage("A")
  \/ \E o \in outbox : InsertMessage(o)

SpecSession == InitStream /\ [][NextSession]_vars

\* ItemDetail on its own.  The component is rendered for A with an item and,
\* as its session prop, no session (inside App this does not happen: App
\* renders Login while there is no session); B uses the app as before
\* (MaxDetailCalls calls).
InitDetail ==
  /\ listings = Listings
  /\ conversations = {[id |-> 1, created_at |-> 1, listing_id |-> "L2",
                       buyer_id |-> "C", seller_id |-> "B"]}
  /\ messages = {[id |-> 1, created_at |-> 2, conversation_id |-> 1,
                  sender_id |-> "C", text |-> Hi]}
  /\ now = 3
  /\ resolveCount = 1
  /\ sendCount = 1
  /\ channels = {}
  /\ session = [u \in Users |-> IF u = "A" THEN NoUser ELSE u]
  /\ unreadCount = [u \in Users |-> 0]
  /\ notes = {}
  /\ ProfilesStarted
  /\ activeTab = [u \in Users |-> TabHOME]
  /\ viewingItem \in { [u \in Users |-> IF u = "A" THEN item ELSE NoItem] : item \in Listings }
  /\ openConversationId = [u \in Users |-> NoConv]
  /\ isMessaging = [u \in Users |-> FALSE]
  /\ calls = {}
  /\ alerts = [u \in Users |-> 0]
  /\ deletes = [u \in Users |-> NoDelete]
  /\ convList = [u \in Users |-> <<>>]
  /\ selectedConversation = [u \in Users |-> NoConv]
  /\ msgList = [u \in Users |-> <<>>]
  /\ inputValue = [u \in Users |-> <<>>]
  /\ myChannel = [u \in Users |-> 0]
  /\ listFetch = [u \in Users |-> NoFetch]
  /\ loads = {}
  /\ openCount = 0
  /\ outbox = {}
  /\ quiet = <<>>
  /\ tainted = FALSE
  /\ released = {}
  /\ callbacks = <<>>
  /\ fetched = <<>>
  /\ attached = {}
  /\ failures = [u \in Users |-> 0]
  /\ ignored = [u \in Users |-> {}]

NextDetail ==
  \/ handleMessageSellerReturn("A")
  \/ \E u \in ResolveUsers : resolveCount <= MaxDetailCalls /\ handleMessageSeller(u)
  \/ \E item \in Listings : onSelectItem("B", item)
  \/ onBack("B")
  \/ \E tab \in Tabs : onTabChange("B", tab)
  \/ \E c \in calls : StoreFindConversations(c)
  \/ \E c \in calls : FindResponse(c)
  \/ \E c \in calls : FindFailed(c)
  \/ \E c \in calls : InsertConversation(c)
  \/ \E c \in calls : InsertResponse(c)
  \/ \E c \in calls : InsertFailed(c)

SpecDetail == InitDetail /\ [][NextDetail]_vars

\* The same with every request of a call answered: the store executes it and
\* the response arrives, or the request fails.
CallStep(c) ==
  \/ StoreFindConversations(c)
  \/ FindResponse(c)
  \/ FindFailed(c)
  \/ InsertConversation(c)
  \/ InsertResponse(c)
  \/ InsertFailed(c)

RequestsAnswered == WF_vars(\E c \in calls : CallStep(c))

SpecDetailFair == SpecDetail /\ RequestsAnswered

\* Deleting listings.  From the same state A and B move through the app,
\* delete listings of their own (MaxDeletes dialogs each), and A sends
\* (MaxDeleteSends messages).
NextDelete ==
  \/ \E u \in ResolveUsers, tab \in Tabs : onTabChange(u, tab)
  \/ \E u \in ResolveUsers, item \in Listings : onSelectItem(u, item)
  \/ \E u \in ResolveUsers : onBack(u)
  \/ \E u \in ResolveUsers : alerts[u] < MaxDeletes /\ handleDelete(u)
  \/ \E u \in ResolveUsers : StoreDeleteListing(u)
  \/ \E u \in ResolveUsers : DeleteResponse(u)
  \/ \E u \in ResolveUsers : DeleteFailed(u)
  \/ \E u \in ResolveUsers : StoreListConversations(u)
  \/ \E u \in ResolveUsers : ListResponse(u)
  \/ /\ inputValue["A"] = <<>>
     /\ outbox = {}
     /\ sendCount < Cardinality(StreamMessages) + MaxDeleteSends
     /\ onChange("A", Hello)
  \/ handleSendMessage("A")
  \/ \E o \in outbox : InsertMessage(o)
  \/ \E o \in outbox : SendFailed(o)

SpecDelete == InitStream /\ [][NextDelete]_vars

\* Two senders.  From the same state B opens and closes conversations
\* (MaxOrderOpens channels) and both A and B type a text into the empty input
\* of the conversation they have open and send it (MaxOrderSends messages
\* each).
SentBy(u) ==
  Cardinality({ m \in messages \ StreamMessages : m.sender_id = u }) +
  Cardinality({ o \in outbox : o.user = u })

NextOrder ==
  \/ \E i \in 1..Len(convList["B"]) :
       /\ openCount <= MaxOrderOpens
       /\ selectConversation("B", convList["B"][i])
  \/ closeConversation("B")
  \/ \E l \in loads : StoreSelectMessages(l)
  \/ \E l \in loads : LoadResponse(l)
  \/ \E ch \in channels : ChannelJoined(ch)
  \/ \E ch \in channels : PushEvent(ch)
  \/ \E u \in ResolveUsers :
       /\ inputValue[u] = <<>>
       /\ SentBy(u) < MaxOrderSends
       /\ onChange(u, Hello)
  \/ \E u \in ResolveUsers : handleSendMessage(u)
  \/ \E o \in outbox : InsertMessage(o)

SpecOrder == InitStream /\ [][NextOrder]_vars

\* The life of the Messages view.  From the same state B opens and closes
\* conversations (MaxViewOpens channels) and leaves and re-enters the Messages
\* tab, and A sends (MaxViewSends messages), typing while B has a conversation
\* open and no send is on its way.
NextView ==
  \/ \E i \in 1..Len(convList["B"]) :
       /\ openCount <= MaxViewOpens
       /\ selectConversation("B", convList["B"][i])
  \/ closeConversation("B")
  \/ \E tab \in Tabs : onTabChange("B", tab)
  \/ StoreListConversations("B")
  \/ ListResponse("B")
  \/ \E l \in loads : StoreSelectMessages(l)
  \/ \E l \in loads : LoadResponse(l)
  \/ \E ch \in channels : ChannelJoined(ch)
  \/ \E ch \in channels : PushEvent(ch)
  \/ /\ inputValue["A"] = <<>>
     /\ outbox = {}
     /\ selectedConversation["B"] # NoConv
     /\ sendCount < Cardinality(StreamMessages) + MaxViewSends
     /\ onChange("A", Hello)
  \/ handleSendMessage("A")
  \/ \E o \in outbox : InsertMessage(o)

SpecView == InitStream /\ [][NextView]_vars

\* Notifications.  From the same state A sends (MaxNotifySends messages)
\* while no send is on its way, A and B move between the tabs, and the INSERT
\* events of the messages sent reach the clients' notification handlers.
NextNotify ==
  \/ /\ inputValue["A"] = <<>>
     /\ outbox = {}
     /\ sendCount < Cardinality(StreamMessages) + MaxNotifySends
     /\ onChange("A", Hello)
  \/ handleSendMessage("A")
  \/ \E o \in outbox : InsertMessage(o)
  \/ \E ch \in channels : PushEvent(ch)
  \/ \E u \in ResolveUsers, tab \in Tabs : onTabChange(u, tab)
  \/ \E u \in ResolveUsers : StoreListConversations(u)
  \/ \E u \in ResolveUsers : ListResponse(u)
  \/ \E u \in Users, m \in messages \ StreamMessages : Notify(u, m)
  \/ \E n \in notes : StoreLookup(n)
  \/ \E n \in notes : LookupResponse(n)
  \/ \E n \in notes : LookupFailed(n)

SpecNotify == InitStream /\ [][NextNotify]_vars

\* Profile editing.  A and B type usernames (while no save of theirs is in
\* flight) and save; every request is answered or fails.
NextProfile ==
  \/ \E u \in ResolveUsers, text \in TypedNames : ~isSaving[u] /\ setUsername(u, text)
  \/ \E u \in ResolveUsers : handleSaveReturn(u)
  \/ \E u \in ResolveUsers : handleSave(u)
  \/ \E s \in saves : StoreCheckUsername(s)
  \/ \E s \in saves : CheckResponse(s)
  \/ \E s \in saves : CheckFailed(s)
  \/ \E s \in saves : AuthAnswered(s)
  \/ \E s \in saves : StoreUpsertProfile(s)
  \/ \E s \in saves : UpsertResponse(s)
  \/ \E s \in saves : UpsertFailed(s)

SpecProfile == Init /\ [][NextProfile]_vars

\* ------------------------------------------------- the resolver's properties
RowsOfPair(x, y) ==
  { conv \in conversations : {conv.buyer_id, conv.seller_id} = {x, y} }

\* C1: in every reachable state at most one conversation row exists for each
\* unordered pair of users, counting both directions.
C1_AtMostOneRowPerPair ==
  \A x \in Users, y \in Users :
    x # y => Cardinality(RowsOfPair(x, y)) <= 1

\* two calls ran one after the other, each alone, and each returned an id
TwoQuietCalls == Len(quiet) = 2 /\ quiet[1].path # "error" /\ quiet[2].path # "error"

\* C2: two calls of resolve(X, Y, listing) that run one after the other with
\* no other call overlapping or in between return the same conversation id,
\* and the second one takes the read path (no insert).
C2_RepeatedCallSameId ==
  ( /\ TwoQuietCalls
    /\ quiet[1].cur = quiet[2].cur
    /\ quiet[1].other = quiet[2].other
    /\ quiet[1].listing = quiet[2].listing )
  => (quiet[2].id = quiet[1].id /\ quiet[2].path = "found")

\* C3: resolve(X, Y, *) followed by resolve(Y, X, *), not overlapping, return
\* the same conversation id.
C3_SwappedRolesSameId ==
  ( /\ TwoQuietCalls
    /\ quiet[1].cur = quiet[2].other
    /\ quiet[1].other = quiet[2].cur )
  => quiet[2].id = quiet[1].id

\* C4: when two calls for the same pair have both fetched before either
\* insert was committed, both inserts are executed: the store then holds two
\* rows for the pair.
SamePair(c1, c2) ==
  {c1.uid, c1.item.seller_id} = {c2.uid, c2.item.seller_id}

C4_OverlappingCallsBothCreate ==
  \A c1 \in calls, c2 \in calls :
    ( /\ c1 # c2
      /\ SamePair(c1, c2)
      /\ c1.pc = "insert_ok"
      /\ c2.pc = "insert_ok" )
    => /\ Cardinality(RowsOfPair(c1.uid, c1.item.seller_id)) >= 2
       /\ c1.created # c2.created

\* C4's case: X resolving with Y and Y with X have both created a row
C4_Witness ==
  \E c1 \in calls, c2 \in calls :
    /\ c1.uid = c2.item.seller_id
    /\ c2.uid = c1.item.seller_id
    /\ c1.pc = "insert_ok"
    /\ c2.pc = "insert_ok"
    /\ \E r1 \in conversations, r2 \in conversations :
         /\ r1.id = c1.created /\ r1.buyer_id = c1.uid /\ r1.seller_id = c2.uid
         /\ r2.id = c2.created /\ r2.buyer_id = c2.uid /\ r2.seller_id = c1.uid

\* C5: once a call has returned a conversation for a pair, a later call for
\* the pair from another listing returns the same id and creates no row.
C5_ListingIndependent ==
  ( /\ TwoQuietCalls
    /\ {quiet[1].cur, quiet[1].other} = {quiet[2].cur, quiet[2].other}
    /\ quiet[1].listing # quiet[2].listing )
  => (quiet[2].id = quiet[1].id /\ quiet[2].path = "found")

\* ------------------------------------------------- the scenario of first contact
\* what fetchMessages had to read: the rows of its conversation committed
\* before the store executed its select
CommittedBefore(l) ==
  { m \in messages : m.conversation_id = l.conv /\ m.created_at < l.readAt }

\* the (text, sender) pairs of a message list, in its order
Shown(list) == [i \in DOMAIN list |-> <<list[i].text, list[i].sender_id>>]

\* C6: when X's call, running alone, has created a conversation with Y and Y's
\* call for X runs next, Y's call returns that conversation and inserts
\* nothing, the pair has exactly that one row, with participants {X, Y}; and a
\* load of a conversation that holds "hello" sent by A and then "hi" sent by B
\* returns exactly these two, in this order.
C6_FirstContact ==
  /\ ( /\ TwoQuietCalls
       /\ quiet[1].path = "created"
       /\ quiet[2].cur = quiet[1].other
       /\ quiet[2].other = quiet[1].cur )
     => /\ quiet[2].id = quiet[1].id
        /\ quiet[2].path = "found"
        /\ \E row \in conversations :
             /\ row.id = quiet[1].id
             /\ row.buyer_id = quiet[1].cur
             /\ row.seller_id = quiet[1].other
             /\ RowsOfPair(quiet[1].cur, quiet[1].other) = {row}
  /\ \A l \in loads :
       ( /\ l.pc = "ok"
         /\ \E m1 \in CommittedBefore(l), m2 \in CommittedBefore(l) :
              /\ CommittedBefore(l) = {m1, m2}
              /\ m1.created_at < m2.created_at
              /\ m1.text = Hello /\ m1.sender_id = "A"
              /\ m2.text = Hi /\ m2.sender_id = "B" )
       => Shown(l.data) = << <<Hello, "A">>, <<Hi, "B">> >>

\* C6's case: A has created the conversation, B's call has found it, and a
\* load of it returns "hello" by A followed by "hi" by B
C6_Witness ==
  /\ Len(quiet) = 2
  /\ quiet[1].cur = "A" /\ quiet[1].other = "B" /\ quiet[1].path = "created"
  /\ quiet[2].cur = "B" /\ quiet[2].other = "A" /\ quiet[2].path = "found"
  /\ \E l \in loads :
       /\ l.pc = "ok"
       /\ l.conv = quiet[1].id
       /\ Shown(l.data) = << <<Hello, "A">>, <<Hi, "B">> >>

\* ------------------------------------------------------- the message stream
\* how often message n is listed by client u
TimesListed(u, n) == Cardinality({ i \in DOMAIN msgList[u] : msgList[u][i].id = n })

\* nothing is on its way to the view behind channel ch: its channel is
\* acknowledged, no event is queued, no fetchMessages of its client is in flight
Settled(ch) ==
  /\ ch.state = "joined"
  /\ ch.queue = <<>>
  /\ \A l \in loads : l.user # ch.user

\* C7: a view that was open (load started, listener registered) when a send
\* was called and is still open lists the sent message exactly once as soon as
\* the message is stored and nothing is on its way to the view any more.
C7_AttachedSeesMessageOnce ==
  \A a \in attached, ch \in channels :
    ( /\ ch.id = a.ch
      /\ \E m \in messages : m.id = a.n
      /\ Settled(ch) )
    => TimesListed(ch.user, a.n) = 1

\* C8: no message list holds two entries with the same id.
C8_NoDuplicateIds ==
  \A u \in Users : \A i \in DOMAIN msgList[u], j \in DOMAIN msgList[u] :
    i # j => msgList[u][i].id # msgList[u][j].id

\* C8's case: the load response has listed a message and its push event has
\* reached the handler afterwards
C8_Witness ==
  \E ch \in channels :
    /\ ch.user = "B"
    /\ callbacks[ch.id].ignored >= 1
    /\ \E m \in messages \ StreamMessages : TimesListed("B", m.id) = 1

\* C9: a released channel stays released, is not among the channels of the
\* realtime service, is held by no view, and its handler does not run again.
C9_ReleasedIsTerminal ==
  [][ \A id \in released :
        /\ id \in released'
        /\ callbacks'[id] = callbacks[id]
        /\ \A ch \in channels' : ch.id # id
        /\ \A u \in Users : myChannel'[u] # id ]_vars

\* C9's case: B has closed a conversation and opened one again, and a message
\* inserted after that has reached the handler of the new channel only
C9_Witness ==
  \E old \in released, ch \in channels :
    /\ ch.user = "B"
    /\ ch.id > old
    /\ myChannel["B"] = ch.id
    /\ callbacks[ch.id].runs >= 1
    /\ callbacks[old].runs = 0
    /\ \E m \in messages \ StreamMessages : TimesListed("B", m.id) = 1

\* C10: an answered fetchMessages holds the messages of its conversation that
\* were committed when the store read them, all of them and no others, each
\* once, and each entry is older than the one after it.
C10_LoadAscending ==
  \A l \in loads :
    l.pc = "ok" =>
      /\ Range(l.data) = CommittedBefore(l)
      /\ Len(l.data) = Cardinality(CommittedBefore(l))
      /\ \A i \in DOMAIN l.data, j \in DOMAIN l.data :
           i < j => l.data[i].created_at < l.data[j].created_at

\* C10's case: a load of a conversation with three messages, answered while
\* its client can read messages of another conversation too
C10_Witness ==
  \E l \in loads :
    /\ l.pc = "ok"
    /\ Len(l.data) = 3
    /\ \E m \in messages : m.conversation_id # l.conv /\ UsersSeeMessages(l.user, m)

\* ------------------------------------------------------- composing and sending
\* the text is empty or has white space only
IsBlank(text) == \A i \in DOMAIN text : text[i] = " "

\* client u has pressed send with nothing to send in this step
BlankSendBy(u) == "handleSendMessage" \in ignored'[u] \ ignored[u]

C12_SenderIsParticipant ==
  \A m \in messages :
    \E conv \in conversations :
      /\ conv.id = m.conversation_id
      /\ m.sender_id \in {conv.buyer_id, conv.seller_id}

\* the response of a fetchMessages call of client u arrives in this step
LoadArrives(u) ==
  \E l \in loads \ loads' : l.user = u /\ l.pc = "ok" /\ msgList'[u] = l.data

\* the INSERT handler of a channel of client u runs in this step
HandlerRuns(u) ==
  \E ch \in channels : ch.user = u /\ callbacks'[ch.id].runs = callbacks[ch.id].runs + 1

\* C13: a send leaves every message list as it is, and the list of a mounted
\* view changes only when a fetchMessages response arrives or the INSERT
\* handler of its channel runs: the sender sees its message through these only.
C13_SendLeavesList ==
  [][ /\ sendCount' # sendCount => msgList' = msgList
      /\ \A u \in Users :
           ( /\ msgList'[u] # msgList[u]
             /\ MessagesShown(activeTab[u], viewingItem[u])
             /\ MessagesShown(activeTab'[u], viewingItem'[u])
             /\ session'[u] # NoUser )
           => (LoadArrives(u) \/ HandlerRuns(u)) ]_vars

\* C13's case: A's message is stored, and A's list does not hold it yet
C13_Witness ==
  \E m \in messages \ StreamMessages :
    /\ m.sender_id = "A"
    /\ TimesListed("A", m.id) = 0
    /\ \E ch \in channels : ch.user = "A" /\ ch.queue # <<>> /\ Head(ch.queue) = m

\* ------------------------------------------------ the resolver's error handling
\* client u has pressed "Message Seller" and the handler has returned at its
\* guard in this step
ResolveReturnsBy(u) == "handleMessageSeller" \in ignored'[u] \ ignored[u]

Progress(pc) ==
  CASE pc = "find_sent" -> 1 [] pc = "find_ok" -> 2 [] pc = "insert_sent" -> 3
    [] pc = "insert_ok" -> 4

\* C15: when the select or the insert of a call fails, the call ends in that
\* step with an alert, without an insert and without a handle for App (the
\* viewed item, the tab and the open conversation stay); a call never goes
\* back to send a request again, and a row is inserted only by a call whose
\* insert is on its way.
C15_FailurePropagated ==
  [][ /\ \A u \in Users :
           failures'[u] > failures[u] =>
             /\ \E c \in calls : c.user = u /\ \A d \in calls' : d.id # c.id
             /\ alerts'[u] = alerts[u] + 1
             /\ UNCHANGED <<conversations, resolveCount, activeTab, viewingItem,
                            openConversationId>>
      /\ \A c \in calls, d \in calls' :
           d.id = c.id => Progress(d.pc) >= Progress(c.pc)
      /\ \A row \in conversations' \ conversations :
           \E c \in calls : c.id = row.id /\ c.pc = "insert_sent" ]_vars

\* C15's case: a call of A has failed, A has seen the alert and still views the item
C15_Witness ==
  /\ failures["A"] >= 1
  /\ alerts["A"] >= 1
  /\ viewingItem["A"] # NoItem
  /\ \A c \in calls : c.user # "A"
  /\ \A conv \in conversations : conv.buyer_id # "A"

\* what client u has before its eyes: the dialogs raised and the Messages view
Visible(u) ==
  <<alerts[u], convList[u], selectedConversation[u], msgList[u], inputValue[u]>>

\* C16: a store request of the Messages view that fails changes what its
\* client has before its eyes (a dialog, an error in the view, the typed text
\* put back): no failure passes unseen.
C16_FailureShown ==
  [][ \A u \in Users : failures'[u] > failures[u] => Visible(u)' # Visible(u) ]_vars

\* The state of client u's conversation view, as the subscription effect and
\* fetchMessages leave it: Closed with no conversation selected, Live when the
\* fetchMessages of the effect's last run has set the list and its channel is
\* joined, Loading otherwise (a failed load included).
Phase(u) ==
  IF selectedConversation[u] = NoConv THEN "Closed"
  ELSE IF /\ myChannel[u] # 0
          /\ fetched[myChannel[u]] = "ok"
          /\ \E ch \in channels : ch.id = myChannel[u] /\ ch.state = "joined"
       THEN "Live"
       ELSE "Loading"

PhaseSteps ==
  { <<"Closed", "Loading">>, <<"Loading", "Live">>, <<"Live", "Closed">>,
    <<"Loading", "Closed">> }

\* the push handler puts a message on client u's list
PushShownTo(u) ==
  /\ msgList'[u] # msgList[u]
  /\ \E ch \in channels : ch.user = u /\ callbacks'[ch.id].runs = callbacks[ch.id].runs + 1

\* C17: a conversation view goes Closed -> Loading -> Live -> Closed (or is
\* closed while Loading), and a view whose load has failed is not live: its
\* list follows no pushed message until the conversation is opened again.
C17_ViewStateMachine ==
  [][ \A u \in Users :
        /\ Phase(u)' # Phase(u) => <<Phase(u), Phase(u)'>> \in PhaseSteps
        /\ PushShownTo(u) => fetched[myChannel[u]] # "failed" ]_vars

\* C18: the stored conversations and messages only grow: every step of
\* the program keeps every conversation row and every message row as it is,
\* a step that deletes the listing of a conversation included.
C18_AppendOnly ==
  [][ conversations \subseteq conversations' /\ messages \subseteq messages' ]_vars

\* C19: no call of the resolver is started by the owner of the listing it is
\* for (the other user is never the current user), and every stored
\* conversation has a buyer different from its seller.
C19_DistinctParticipants ==
  /\ \A c \in calls : c.uid # c.item.seller_id
  /\ \A conv \in conversations : conv.buyer_id # conv.seller_id

\* a user looks at a listing of their own while a conversation that another
\* user's call has created with them is stored
C19_Witness ==
  \E u \in Users :
    /\ viewingItem[u] # NoItem
    /\ viewingItem[u].seller_id = session[u]
    /\ ~isMessaging[u]
    /\ \E conv \in conversations :
         conv.seller_id = session[u] /\ conv.id > 1

\* the local filter of call c has found no conversation of the pair
FoundNone(c) == c.pc = "find_ok" /\ ExistingDMs(c.found, c.uid, c.item.seller_id) = {}

\* call c has ended in this step
Ended(c) == \A d \in calls' : d.id # c.id

\* C20: a call that finds no conversation of its pair goes on to the insert
\* and opens nothing before it; its insert adds exactly one row, under an id
\* no row had, with the current user as buyer, the listing's seller as seller
\* and the viewed listing as listing_id; and the call returns that row's id
\* (the Messages tab opens with it) without a second insert.
C20_CreatesOneRow ==
  [][ /\ \A c \in calls :
           (FoundNone(c) /\ c \notin calls') =>
             /\ UNCHANGED conversations
             /\ Ended(c) => /\ failures'[c.user] = failures[c.user] + 1
                            /\ UNCHANGED openConversationId
             /\ \A d \in calls' : d.id = c.id => d.pc \in {"find_ok", "insert_sent"}
      /\ \A c \in calls, d \in calls' :
           (d.id = c.id /\ c.pc = "insert_sent" /\ d.pc = "insert_ok") =>
             /\ conversations' \ conversations =
                  {[id |-> d.created, created_at |-> now, listing_id |-> c.item.id,
                    buyer_id |-> c.uid, seller_id |-> c.item.seller_id]}
             /\ \A conv \in conversations : conv.id # d.created
      /\ conversations' # conversations =>
           \E c \in calls, d \in calls' :
             d.id = c.id /\ c.pc = "insert_sent" /\ d.pc = "insert_ok"
      /\ \A c \in calls :
           (c.pc = "insert_ok" /\ Ended(c) /\ failures'[c.user] = failures[c.user]) =>
             /\ UNCHANGED conversations
             /\ openConversationId'[c.user] = c.created
             /\ activeTab'[c.user] = TabMESSAGES
             /\ viewingItem'[c.user] = NoItem ]_vars

\* a call has created the conversation of its pair and has opened the
\* Messages tab with the new row's id
C20_Witness ==
  \E u \in Users, conv \in conversations :
    /\ conv.id > 1
    /\ conv.buyer_id = u
    /\ \E l \in Listings : l.id = conv.listing_id /\ l.seller_id = conv.seller_id
    /\ openConversationId[u] = conv.id
    /\ activeTab[u] = TabMESSAGES
    /\ \A c \in calls : c.user # u

\* ------------------------------------------------- the view's properties
Ascending(list) ==
  \A i \in DOMAIN list, j \in DOMAIN list :
    i < j => list[i].created_at < list[j].created_at

\* C21: the list shown for the open conversation is ascending by created_at
\* in every reachable state, whatever the order in which load responses and
\* push events arrive.
C21_ListAscending ==
  \A u \in Users : selectedConversation[u] # NoConv => Ascending(msgList[u])

\* C22: while a conversation is selected, every message of the list shown
\* belongs to it: neither the list left from the conversation open before nor
\* a late load response for that one is shown under the new one.
C22_ListOfSelected ==
  \A u \in Users :
    selectedConversation[u] # NoConv =>
      \A m \in Range(msgList[u]) : m.conversation_id = selectedConversation[u]

\* the push channels client u holds
ChannelsOf(u) == { ch \in channels : ch.user = u }

\* C23: a client holds at most one message channel: while a conversation is
\* selected exactly one, the one of the effect's last run, filtered to the
\* selected conversation; none while no conversation is selected or Messages
\* is not rendered; and no released channel is among them, so that only the
\* channel of the selected conversation delivers.
C23_OneSubscription ==
  \A u \in Users :
    /\ Cardinality(ChannelsOf(u)) <= 1
    /\ selectedConversation[u] # NoConv =>
         \E ch \in ChannelsOf(u) :
           ch.id = myChannel[u] /\ ch.conv = selectedConversation[u]
    /\ selectedConversation[u] = NoConv => ChannelsOf(u) = {}
    /\ (session[u] = NoUser \/ ~MessagesShown(activeTab[u], viewingItem[u])) =>
         ChannelsOf(u) = {}
    /\ \A ch \in ChannelsOf(u) : ch.id \notin released

\* the client has left one conversation, has opened another one, and the
\* channel of that one has delivered
C23_Witness ==
  \E ch \in channels, old \in released :
    /\ ch.user = "B"
    /\ ch.id = myChannel["B"]
    /\ ch.conv = 2
    /\ old # 1
    /\ callbacks[old].runs = 0
    /\ callbacks[ch.id].runs >= 1

\* the text is not empty and has no white space at either end
Trimmed(text) == text # <<>> /\ Trim(text) = text

\* C24: every stored message has a non-empty text that is its own trimmed
\* form.  A send requests exactly one insert, of the trimmed input, into the
\* selected conversation, with the current user as sender (there is no send
\* without a selected conversation or without a user), and the store makes
\* of one request exactly one row, with these values.
C24_StoredTextTrimmed ==
  [][ /\ \A m \in messages \cup messages' : Trimmed(m.text)
      /\ outbox' \ outbox # {} =>
           /\ Cardinality(outbox' \ outbox) = 1
           /\ UNCHANGED messages
           /\ \A o \in outbox' \ outbox :
                /\ o.text = Trim(inputValue[o.user])
                /\ Trimmed(o.text)
                /\ selectedConversation[o.user] # NoConv
                /\ o.conversation_id = selectedConversation[o.user]
                /\ session[o.user] # NoUser
                /\ o.sender_id = session[o.user]
      /\ messages' # messages =>
           \E o \in outbox :
             /\ outbox' = outbox \ {o}
             /\ \A m \in messages : m.id # o.n
             /\ messages' = messages \cup
                  {[id |-> o.n, created_at |-> now, conversation_id |-> o.conversation_id,
                    sender_id |-> o.sender_id, text |-> o.text]} ]_vars

\* A has typed " hi " and the message "hi" is stored in the conversation A
\* has open, under A's name
C24_Witness ==
  \E m \in messages \ StreamMessages :
    /\ m.text = Hi
    /\ m.sender_id = "A"
    /\ m.conversation_id = selectedConversation["A"]
    /\ outbox = {}

\* the participant of `row` that is not `uid`
OtherOf(row, uid) == IF row.buyer_id = uid THEN row.seller_id ELSE row.buyer_id

\* the response of fetchConversations reaches client u in this step
ListArrives(u) == listFetch[u].pc = "ok" /\ listFetch'[u].pc = "none"

\* C25: the list fetchConversations builds from the rows the store returned
\* has one entry for each other user of these rows and no two entries for the
\* same one; the entry is the most recently created row of that pair; and no
\* entry has the current user as its other user.
C25_OneEntryPerUser ==
  [][ \A u \in Users :
        ListArrives(u) =>
          LET list == convList'[u]
              data == Range(listFetch[u].data)
              uid  == listFetch[u].uid
          IN  /\ \A i \in DOMAIN list, j \in DOMAIN list :
                   i # j => list[i].other_user_id # list[j].other_user_id
              /\ \A i \in DOMAIN list :
                   /\ list[i].other_user_id # uid
                   /\ \E row \in data :
                        /\ row.id = list[i].id
                        /\ OtherOf(row, uid) = list[i].other_user_id
                        /\ {row.buyer_id, row.seller_id} = {uid, list[i].other_user_id}
              /\ \A row \in data :
                   OtherOf(row, uid) # uid =>
                     \E i \in DOMAIN list :
                       /\ list[i].other_user_id = OtherOf(row, uid)
                       /\ list[i].created_at >= row.created_at ]_vars

\* a client's list has one entry for a user with whom the store holds an
\* older row too
C25_Witness ==
  \E u \in Users :
    \E i \in DOMAIN convList[u] :
      \E row \in conversations :
        /\ row.id # convList[u][i].id
        /\ {row.buyer_id, row.seller_id} = {u, convList[u][i].other_user_id}
        /\ row.created_at < convList[u][i].created_at

\* the ids a conversation row can have in SpecScenario
ScenarioIds == 1..(MaxChatCalls + 2)

\* C26: once a call has handed a conversation id to App and Messages is
\* rendered with it, Messages comes to have that conversation selected (or
\* the user has gone elsewhere), whatever rows the store holds for the pair.
C26_HandedIdOpens ==
  \A u \in ResolveUsers : \A id \in ScenarioIds :
    (openConversationId[u] = id /\ MessagesShown(activeTab[u], viewingItem[u]))
      ~> (selectedConversation[u] = id \/ openConversationId[u] # id)

\* the calls started by the ItemDetail now mounted for client u
LiveCalls(u) == { c \in calls : c.user = u /\ c.live }

\* the ids a call can have in SpecDetail
DetailIds == 2..(MaxDetailCalls + 1)

\* C27: an item view has at most one call of the resolver in flight, and
\* isMessaging is set exactly while it has one; no call starts while
\* isMessaging is set; and every call that has started ends (the requests
\* being answered), after which isMessaging of its view is false.
C27_OneCallPerView ==
  /\ [](\A u \in Users :
          /\ Cardinality(LiveCalls(u)) <= 1
          /\ isMessaging[u] <=> LiveCalls(u) # {})
  /\ [][ \A d \in calls' :
           (\A c \in calls : c.id # d.id) => ~isMessaging[d.user] ]_vars
  /\ \A id \in DetailIds :
       (\E c \in calls : c.id = id) ~> (\A c \in calls : c.id # id)

\* a call of the view before is still in flight while the view now mounted
\* has started its own
C27_Witness ==
  \E c \in calls, d \in calls :
    /\ c.user = d.user
    /\ ~c.live
    /\ d.live
    /\ isMessaging[c.user]

\* ------------------------------------------------- App's properties
\* C28: while the Messages tab is the active one, unreadCount is 0: a
\* notification whose lookup was started on another tab adds nothing once
\* the user is on the Messages tab.
C28_NoDotOnMessagesTab ==
  \A u \in Users : activeTab[u] = TabMESSAGES => unreadCount[u] = 0

\* the message of the handler run n
MessageOf(n) == CHOOSE m \in messages : m.id = n.msg

\* C29: unreadCount is never negative, and it grows only by one, in a step
\* of a notification handler whose message was sent by another user than the
\* client's into a conversation that has the client's user as buyer or
\* seller; apart from that it only goes back to 0.
C29_DotOnlyForOthersMessages ==
  [][ \A u \in Users :
        /\ unreadCount[u] >= 0 /\ unreadCount'[u] >= 0
        /\ unreadCount'[u] # unreadCount[u] =>
             \/ unreadCount'[u] = 0
             \/ /\ unreadCount'[u] = unreadCount[u] + 1
                /\ \E n \in notes :
                     /\ n.user = u
                     /\ n.pc = "lookup_ok"
                     /\ \A d \in notes' : (d.user = u /\ d.msg = n.msg) => d.pc = "done"
                     /\ MessageOf(n).sender_id # session[u]
                     /\ \E conv \in conversations :
                          /\ conv.id = MessageOf(n).conversation_id
                          /\ session[u] \in {conv.buyer_id, conv.seller_id} ]_vars

\* B's dot is set, and the handlers of A (the sender) and of C (in no
\* conversation with A) have run for the same message and have set none
C29_Witness ==
  /\ unreadCount["B"] = 1
  /\ unreadCount["A"] = 0 /\ activeTab["A"] # TabMESSAGES
  /\ unreadCount["C"] = 0
  /\ \E m \in messages :
       /\ m.sender_id = "A"
       /\ \A u \in Users : \E n \in notes : n.user = u /\ n.msg = m.id /\ n.pc = "done"

\* ---------------------------------------------------------------- C30
\* C30: saving a profile never leaves two distinct users with the same
\* username.
C30_UsernamesDistinct ==
  \A u, v \in Users : u # v => profiles[u] # profiles[v]

====
